---- MODULE Spec2Model ----
(***************************************************************************)
(* Honeypot session state machine: the session store (session_manager.py), *)
(* the conclusion policy, the intelligence extractor                       *)
(* (intelligence_extractor.py) and the chat handler with its detached      *)
(* final-callback task (main.py).                                          *)
(*                                                                         *)
(* Representation notes.                                                   *)
(*  - A message text is a TLA+ string; Chars gives its character sequence, *)
(*    on which the extractor's regular expressions are evaluated.          *)
(*  - datetime.utcnow().isoformat() readings are integers: the ISO strings *)
(*    compare as the instants do.  The wall clock may return the same      *)
(*    reading twice; it is modelled as non-decreasing.                     *)
(*  - A confidence is an integer number of hundredths (0.7 is 70).         *)
(*  - A key that a dict does not hold yet (agent_engaged_at, ...) is <<>>, *)
(*    a held value v is <<v>>.                                             *)
(*  - A Python list built by list(set(..)) has an unspecified order: the   *)
(*    stored intelligence lists are sequences in any order.                *)
(*  - SessionManager.delete_session has no caller in the program and is    *)
(*    not an action.                                                       *)
(*  - extractor_call is a call of an IntelligenceExtractor method made from *)
(*    outside the chat handler: the method, its argument and, once it has   *)
(*    returned, the value returned.  The service itself makes none.         *)
(***************************************************************************)
EXTENDS Integers, Sequences, FiniteSets, TLC

VARIABLES sessions, now, handlers, tasks, extractor_call

vars == <<sessions, now, handlers, tasks, extractor_call>>

(***************************************************************************)
(* Bounds of the model.                                                    *)
(***************************************************************************)
\* inbound turns accepted per session
MaxTurns == 16
\* largest clock reading
MaxClock == 1
\* inbound turns per session whose input is not DefaultInput
MaxRich == 1
\* inbound turns accepted on a session after it has concluded
MaxPostTurns == 1

(***************************************************************************)
(* Policy constants of the program.                                        *)
(***************************************************************************)
\* main.py:192  confidence > 0.7
ConfidenceThreshold == 70
\* session_manager.py:124  engagement_messages < 8
MinEngagementMessages == 8
\* session_manager.py:133  total_messages >= 15
MaxMessages == 15
\* intelligence_extractor.py:71  len(clean) == 10
PhoneLen == 10
\* intelligence_extractor.py:80  len(acc) >= 11
MinAccountLen == 11
\* intelligence_extractor.py:20  \d{9,18}
AccountRunMin == 9
AccountRunMax == 18

SessionIds == {"s1"}
Slots == {1}
IntelKeys == {"upi_ids", "phone_numbers", "bank_accounts", "phishing_links",
              "suspicious_keywords"}

Range(q) == {q[i] : i \in DOMAIN q}

\* the duplicate-free sequences that enumerate S: the possible list(S)
ListsOf(S) ==
    {q \in [1..Cardinality(S) -> S] : Range(q) = S}

(***************************************************************************)
(* Characters and the regular-expression primitives used by                *)
(* intelligence_extractor.py (ASCII subset of Python's \d, \w, \s, \b).    *)
(***************************************************************************)
Digits == {"0", "1", "2", "3", "4", "5", "6", "7", "8", "9"}
LowerLetters == {"a", "b", "c", "d", "e", "f", "g", "h", "i", "j", "k", "l", "m",
                 "n", "o", "p", "q", "r", "s", "t", "u", "v", "w", "x", "y", "z"}
UpperLetters == {"A", "B", "C", "D", "E", "F", "G", "H", "I", "J", "K", "L", "M",
                 "N", "O", "P", "Q", "R", "S", "T", "U", "V", "W", "X", "Y", "Z"}
\* \w
WordChars == Digits \cup LowerLetters \cup UpperLetters \cup {"_"}
\* \s
SpaceChars == {" ", "\t", "\n", "\r", "\f"}

\* the character of t at position i, "" outside t
Ch(t, i) == IF i >= 1 /\ i <= Len(t) THEN SubSeq(t, i, i) ELSE ""

HasPrefix(t, i, p) ==
    /\ i >= 1
    /\ i + Len(p) - 1 <= Len(t)
    /\ SubSeq(t, i, i + Len(p) - 1) = p

\* \b between positions i-1 and i
Boundary(t, i) == (Ch(t, i - 1) \in WordChars) # (Ch(t, i) \in WordChars)

\* last position of the longest run of characters of class C that starts at i
\* (i - 1 when the run is empty)
RunEnd(t, i, C) ==
    CHOOSE e \in (i - 1)..Len(t) :
        /\ \A k \in i..e : Ch(t, k) \in C
        /\ (e = Len(t) \/ Ch(t, e + 1) \notin C)

\* str.lower()
LowerCh(c) ==
    CASE c = "A" -> "a" [] c = "B" -> "b" [] c = "C" -> "c" [] c = "D" -> "d"
      [] c = "E" -> "e" [] c = "F" -> "f" [] c = "G" -> "g" [] c = "H" -> "h"
      [] c = "I" -> "i" [] c = "J" -> "j" [] c = "K" -> "k" [] c = "L" -> "l"
      [] c = "M" -> "m" [] c = "N" -> "n" [] c = "O" -> "o" [] c = "P" -> "p"
      [] c = "Q" -> "q" [] c = "R" -> "r" [] c = "S" -> "s" [] c = "T" -> "t"
      [] c = "U" -> "u" [] c = "V" -> "v" [] c = "W" -> "w" [] c = "X" -> "x"
      [] c = "Y" -> "y" [] c = "Z" -> "z" [] OTHER -> c

RECURSIVE LowerFrom(_, _)
LowerFrom(t, i) ==
    IF i > Len(t) THEN "" ELSE LowerCh(Ch(t, i)) \o LowerFrom(t, i + 1)

Lower(t) == LowerFrom(t, 1)

\* Python's  sub in t
Contains(t, sub) ==
    \E i \in 1..(Len(t) - Len(sub) + 1) : SubSeq(t, i, i + Len(sub) - 1) = sub

(***************************************************************************)
(* upi_pattern  \b[\w\.-]+@[\w-]+\b  : the position after the match that   *)
(* starts at i, 0 when there is none.  The local part is the whole run of  *)
(* [\w.-] (a shorter one is not followed by @); the domain part is the     *)
(* longest prefix of the run of [\w-] that ends at a word boundary.        *)
(***************************************************************************)
UpiLocalChars == WordChars \cup {".", "-"}
UpiDomainChars == WordChars \cup {"-"}

upi_match(t, i) ==
    LET p == RunEnd(t, i, UpiLocalChars)
        q == RunEnd(t, p + 2, UpiDomainChars)
        ends == {e \in (p + 2)..q : Boundary(t, e + 1)}
    IN  IF /\ Boundary(t, i)
           /\ p >= i
           /\ Ch(t, p + 1) = "@"
           /\ ends # {}
        THEN (CHOOSE e \in ends : \A f \in ends : f <= e) + 1
        ELSE 0

RECURSIVE upi_findall(_, _)
upi_findall(t, i) ==
    IF i > Len(t) THEN <<>>
    ELSE LET e == upi_match(t, i)
         IN  IF e = 0 THEN upi_findall(t, i + 1)
             ELSE <<SubSeq(t, i, e - 1)>> \o upi_findall(t, e)

\* intelligence_extractor.py:61
UpiProviders == {"paytm", "phonepe", "gpay", "ybl", "okaxis", "okhdfcbank",
                 "oksbi", "okicici"}

(***************************************************************************)
(* phone_pattern  (?:\+91|91|0)?[6-9]\d{9}\b                               *)
(***************************************************************************)
phone_body(t, j) ==
    /\ j + PhoneLen - 1 <= Len(t)
    /\ Ch(t, j) \in {"6", "7", "8", "9"}
    /\ \A k \in 1..(PhoneLen - 1) : Ch(t, j + k) \in Digits
    /\ Boundary(t, j + PhoneLen)

phone_match(t, i) ==
    IF HasPrefix(t, i, "+91") /\ phone_body(t, i + 3) THEN i + 3 + PhoneLen
    ELSE IF HasPrefix(t, i, "91") /\ phone_body(t, i + 2) THEN i + 2 + PhoneLen
    ELSE IF HasPrefix(t, i, "0") /\ phone_body(t, i + 1) THEN i + 1 + PhoneLen
    ELSE IF phone_body(t, i) THEN i + PhoneLen
    ELSE 0

RECURSIVE phone_findall(_, _)
phone_findall(t, i) ==
    IF i > Len(t) THEN <<>>
    ELSE LET e == phone_match(t, i)
         IN  IF e = 0 THEN phone_findall(t, i + 1)
             ELSE <<SubSeq(t, i, e - 1)>> \o phone_findall(t, e)

\* re.sub(r'^(\+91|91|0)', '', phone)
clean_phone(phone) ==
    IF HasPrefix(phone, 1, "+91") THEN SubSeq(phone, 4, Len(phone))
    ELSE IF HasPrefix(phone, 1, "91") THEN SubSeq(phone, 3, Len(phone))
    ELSE IF HasPrefix(phone, 1, "0") THEN SubSeq(phone, 2, Len(phone))
    ELSE phone

(***************************************************************************)
(* bank_account_pattern  \b\d{9,18}\b                                      *)
(***************************************************************************)
account_match(t, i) ==
    LET q == RunEnd(t, i, Digits)
        hi == IF q < i + AccountRunMax - 1 THEN q ELSE i + AccountRunMax - 1
        ends == {e \in (i + AccountRunMin - 1)..hi : Boundary(t, e + 1)}
    IN  IF Boundary(t, i) /\ ends # {}
        THEN (CHOOSE e \in ends : \A f \in ends : f <= e) + 1
        ELSE 0

RECURSIVE account_findall(_, _)
account_findall(t, i) ==
    IF i > Len(t) THEN <<>>
    ELSE LET e == account_match(t, i)
         IN  IF e = 0 THEN account_findall(t, i + 1)
             ELSE <<SubSeq(t, i, e - 1)>> \o account_findall(t, e)

(***************************************************************************)
(* url_pattern  https?://[^\s]+|www\.[^\s]+|bit\.ly/[^\s]+|tinyurl\.com/[^\s]+ *)
(***************************************************************************)
UrlPrefixes == <<"https://", "http://", "www.", "bit.ly/", "tinyurl.com/">>

url_match(t, i) ==
    LET hits == {n \in DOMAIN UrlPrefixes :
                    /\ HasPrefix(t, i, UrlPrefixes[n])
                    /\ Ch(t, i + Len(UrlPrefixes[n])) # ""
                    /\ Ch(t, i + Len(UrlPrefixes[n])) \notin SpaceChars}
    IN  IF hits = {} THEN 0
        ELSE LET n == CHOOSE m \in hits : \A k \in hits : m <= k
                 from == i + Len(UrlPrefixes[n])
             IN  (CHOOSE e \in from..Len(t) :
                     /\ \A k \in from..e : Ch(t, k) \notin SpaceChars
                     /\ (e = Len(t) \/ Ch(t, e + 1) \in SpaceChars)) + 1

RECURSIVE url_findall(_, _)
url_findall(t, i) ==
    IF i > Len(t) THEN <<>>
    ELSE LET e == url_match(t, i)
         IN  IF e = 0 THEN url_findall(t, i + 1)
             ELSE <<SubSeq(t, i, e - 1)>> \o url_findall(t, e)

\* intelligence_extractor.py:28-39
SuspiciousKeywords ==
    {"kyc", "update", "verify", "account", "blocked", "suspended",
     "otp", "cvv", "pin", "password", "aadhaar", "pan",
     "prize", "lottery", "won", "congratulations",
     "urgent", "immediately", "expire", "cancel",
     "refund", "tax", "cashback", "reward",
     "click here", "download", "apk", "install",
     "bank", "axis", "hdfc", "sbi", "icici", "paytm", "phonepe", "googlepay",
     "police", "arrest", "court", "legal action",
     "loan approved", "credit card", "offer",
     "delivery", "courier", "parcel", "custom duty"}

(***************************************************************************)
(* IntelligenceExtractor.extract_from_message.  Each returned list is      *)
(* list(set(..)) and is only ever read as a set, so it is kept as the set. *)
(***************************************************************************)
extract_from_message(message) ==
    LET message_lower == Lower(message)
        upi_matches == upi_findall(message, 1)
        upi_ids == {u \in Range(upi_matches) :
                       \E bank \in UpiProviders : Contains(Lower(u), bank)}
        phone_matches == phone_findall(message, 1)
        cleaned_phones == {clean_phone(ph) : ph \in
                              {m \in Range(phone_matches) :
                                  Len(clean_phone(m)) = PhoneLen}}
        account_matches == account_findall(message, 1)
        potential_accounts == {acc \in Range(account_matches) :
                                  /\ acc \notin cleaned_phones
                                  /\ Len(acc) >= MinAccountLen}
        url_matches == url_findall(message, 1)
        found_keywords == {k \in SuspiciousKeywords : Contains(message_lower, k)}
    IN  [upi_ids |-> upi_ids,
         phone_numbers |-> cleaned_phones,
         bank_accounts |-> potential_accounts,
         phishing_links |-> Range(url_matches),
         suspicious_keywords |-> found_keywords]

\* faulty variant: a phone number or a link alone is enough
is_high_value_intelligence_either(intelligence) ==
    LET has_upi == Len(intelligence.upi_ids) > 0
        has_phone == Len(intelligence.phone_numbers) > 0
        has_link == Len(intelligence.phishing_links) > 0
        has_bank == Len(intelligence.bank_accounts) > 0
    IN  has_upi \/ (has_phone \/ has_link) \/ has_bank

\* IntelligenceExtractor.is_high_value_intelligence (the fields are lists)
is_high_value_intelligence(intelligence) ==
    LET has_upi == Len(intelligence.upi_ids) > 0
        has_phone == Len(intelligence.phone_numbers) > 0
        has_link == Len(intelligence.phishing_links) > 0
        has_bank == Len(intelligence.bank_accounts) > 0
    IN  has_upi \/ (has_phone /\ has_link) \/ has_bank

(***************************************************************************)
(* The wall clock: datetime.utcnow().  A reading is the last reading or a  *)
(* later one.                                                              *)
(***************************************************************************)
Readings(last) == {last} \cup (IF last < MaxClock THEN {last + 1} ELSE {})

(***************************************************************************)
(* SessionManager (session_manager.py).  ss is the sessions dict; tc is    *)
(* the clock reading that get_session takes when it creates the session,   *)
(* t the reading the operation itself takes.                               *)
(***************************************************************************)
EmptyIntelligence ==
    [upi_ids |-> <<>>, phone_numbers |-> <<>>, bank_accounts |-> <<>>,
     phishing_links |-> <<>>, suspicious_keywords |-> <<>>]

NewSession(session_id, tc) ==
    [session_id |-> session_id,
     created_at |-> tc,
     messages |-> <<>>,
     scam_detected |-> FALSE,
     scam_confidence |-> 0,
     agent_engaged |-> FALSE,
     extracted_intelligence |-> EmptyIntelligence,
     callback_sent |-> FALSE,
     should_conclude |-> FALSE,
     scam_detected_at |-> <<>>,
     agent_engaged_at |-> <<>>,
     callback_sent_at |-> <<>>]

\* faulty variant: the session is initialised on every call
get_session_reset(ss, session_id, tc) ==
    [u \in DOMAIN ss \cup {session_id} |->
        IF u = session_id THEN NewSession(session_id, tc) ELSE ss[u]]

get_session(ss, session_id, tc) ==
    IF session_id \notin DOMAIN ss
    THEN ss @@ (session_id :> NewSession(session_id, tc))
    ELSE ss

\* faulty variant: the message is inserted at the head of the log
add_message_front(ss, session_id, sender, text, timestamp, tc, t) ==
    LET s1 == get_session(ss, session_id, tc)
    IN  [s1 EXCEPT ![session_id].messages =
            <<[sender |-> sender, text |-> text,
               timestamp |-> timestamp, datetime |-> t]>> \o @]

add_message(ss, session_id, sender, text, timestamp, tc, t) ==
    LET s1 == get_session(ss, session_id, tc)
    IN  [s1 EXCEPT ![session_id].messages =
            Append(@, [sender |-> sender, text |-> text,
                       timestamp |-> timestamp, datetime |-> t])]

\* faulty variant: the detection flag is not set
mark_scam_detected_noflag(ss, session_id, confidence, tc, t) ==
    LET s1 == get_session(ss, session_id, tc)
    IN  [s1 EXCEPT ![session_id].scam_confidence = confidence,
                   ![session_id].scam_detected_at = <<t>>]

\* faulty variant: every session of the store is marked
mark_scam_detected_all(ss, session_id, confidence, tc, t) ==
    LET s1 == get_session(ss, session_id, tc)
    IN  [u \in DOMAIN s1 |->
            [s1[u] EXCEPT !.scam_detected = TRUE,
                          !.scam_confidence = confidence,
                          !.scam_detected_at = <<t>>]]

mark_scam_detected(ss, session_id, confidence, tc, t) ==
    LET s1 == get_session(ss, session_id, tc)
    IN  [s1 EXCEPT ![session_id].scam_detected = TRUE,
                   ![session_id].scam_confidence = confidence,
                   ![session_id].scam_detected_at = <<t>>]

\* faulty variant: only the engagement timestamp is recorded
engage_agent_noflag(ss, session_id, tc, t) ==
    LET s1 == get_session(ss, session_id, tc)
    IN  [s1 EXCEPT ![session_id].agent_engaged_at = <<t>>]

engage_agent(ss, session_id, tc, t) ==
    LET s1 == get_session(ss, session_id, tc)
    IN  [s1 EXCEPT ![session_id].agent_engaged = TRUE,
                   ![session_id].agent_engaged_at = <<t>>]

\* faulty variant: the new lists overwrite the current ones
update_intelligence_overwrite(ss, session_id, new_intelligence, tc) ==
    LET s1 == get_session(ss, session_id, tc)
    IN  {[s1 EXCEPT ![session_id].extracted_intelligence = merged] :
            merged \in [upi_ids : ListsOf(new_intelligence["upi_ids"]),
                        phone_numbers : ListsOf(new_intelligence["phone_numbers"]),
                        bank_accounts : ListsOf(new_intelligence["bank_accounts"]),
                        phishing_links : ListsOf(new_intelligence["phishing_links"]),
                        suspicious_keywords :
                            ListsOf(new_intelligence["suspicious_keywords"])]}

\* the stores update_intelligence may leave: one per order of the new lists
update_intelligence(ss, session_id, new_intelligence, tc) ==
    LET s1 == get_session(ss, session_id, tc)
        current == s1[session_id].extracted_intelligence
        combined(key) == Range(current[key]) \cup new_intelligence[key]
    IN  {[s1 EXCEPT ![session_id].extracted_intelligence = merged] :
            merged \in [upi_ids : ListsOf(combined("upi_ids")),
                        phone_numbers : ListsOf(combined("phone_numbers")),
                        bank_accounts : ListsOf(combined("bank_accounts")),
                        phishing_links : ListsOf(combined("phishing_links")),
                        suspicious_keywords :
                            ListsOf(combined("suspicious_keywords"))]}

\* messages counted by session_manager.py:116-119
engagement_count(session) ==
    IF session.agent_engaged_at # <<>>
    THEN Cardinality({i \in DOMAIN session.messages :
                         session.messages[i].datetime >=
                             session.agent_engaged_at[1]})
    ELSE Len(session.messages)

\* faulty variant: the decision is not persisted
should_conclude_session_nopersist(ss, session_id, tc) ==
    LET s1 == get_session(ss, session_id, tc)
        session == s1[session_id]
        total_messages == Len(session.messages)
        engagement_messages == engagement_count(session)
        has_valuable_intel ==
            is_high_value_intelligence(session.extracted_intelligence)
        max_messages_reached == total_messages >= MaxMessages
        should_conclude == has_valuable_intel \/ max_messages_reached
    IN  IF session.should_conclude THEN [ret |-> TRUE, store |-> s1]
        ELSE IF ~session.agent_engaged THEN [ret |-> FALSE, store |-> s1]
        ELSE IF engagement_messages < MinEngagementMessages
        THEN [ret |-> FALSE, store |-> s1]
        ELSE [ret |-> should_conclude,
              store |-> s1]

\* faulty variant: the hard ceiling is tested before the engagement floor
should_conclude_session_nofloor(ss, session_id, tc) ==
    LET s1 == get_session(ss, session_id, tc)
        session == s1[session_id]
        total_messages == Len(session.messages)
        engagement_messages == engagement_count(session)
        has_valuable_intel ==
            is_high_value_intelligence(session.extracted_intelligence)
        max_messages_reached == total_messages >= MaxMessages
        should_conclude == has_valuable_intel \/ max_messages_reached
    IN  IF session.should_conclude THEN [ret |-> TRUE, store |-> s1]
        ELSE IF ~session.agent_engaged THEN [ret |-> FALSE, store |-> s1]
        ELSE IF engagement_messages < MinEngagementMessages /\ ~max_messages_reached
        THEN [ret |-> FALSE, store |-> s1]
        ELSE [ret |-> should_conclude,
              store |-> IF should_conclude
                        THEN [s1 EXCEPT ![session_id].should_conclude = TRUE]
                        ELSE s1]

\* faulty variant: the ceiling is total_messages > 15
should_conclude_session_strict(ss, session_id, tc) ==
    LET s1 == get_session(ss, session_id, tc)
        session == s1[session_id]
        total_messages == Len(session.messages)
        engagement_messages == engagement_count(session)
        has_valuable_intel ==
            is_high_value_intelligence(session.extracted_intelligence)
        max_messages_reached == total_messages > MaxMessages
        should_conclude == has_valuable_intel \/ max_messages_reached
    IN  IF session.should_conclude THEN [ret |-> TRUE, store |-> s1]
        ELSE IF ~session.agent_engaged THEN [ret |-> FALSE, store |-> s1]
        ELSE IF engagement_messages < MinEngagementMessages
        THEN [ret |-> FALSE, store |-> s1]
        ELSE [ret |-> should_conclude,
              store |-> IF should_conclude
                        THEN [s1 EXCEPT ![session_id].should_conclude = TRUE]
                        ELSE s1]

\* faulty variant: both exit conditions are required
should_conclude_session_and(ss, session_id, tc) ==
    LET s1 == get_session(ss, session_id, tc)
        session == s1[session_id]
        total_messages == Len(session.messages)
        engagement_messages == engagement_count(session)
        has_valuable_intel ==
            is_high_value_intelligence(session.extracted_intelligence)
        max_messages_reached == total_messages >= MaxMessages
        should_conclude == has_valuable_intel /\ max_messages_reached
    IN  IF session.should_conclude THEN [ret |-> TRUE, store |-> s1]
        ELSE IF ~session.agent_engaged THEN [ret |-> FALSE, store |-> s1]
        ELSE IF engagement_messages < MinEngagementMessages
        THEN [ret |-> FALSE, store |-> s1]
        ELSE [ret |-> should_conclude,
              store |-> IF should_conclude
                        THEN [s1 EXCEPT ![session_id].should_conclude = TRUE]
                        ELSE s1]

\* faulty variant: the floor is engagement_messages <= 8
should_conclude_session_late(ss, session_id, tc) ==
    LET s1 == get_session(ss, session_id, tc)
        session == s1[session_id]
        total_messages == Len(session.messages)
        engagement_messages == engagement_count(session)
        has_valuable_intel ==
            is_high_value_intelligence(session.extracted_intelligence)
        max_messages_reached == total_messages >= MaxMessages
        should_conclude == has_valuable_intel \/ max_messages_reached
    IN  IF session.should_conclude THEN [ret |-> TRUE, store |-> s1]
        ELSE IF ~session.agent_engaged THEN [ret |-> FALSE, store |-> s1]
        ELSE IF engagement_messages <= MinEngagementMessages
        THEN [ret |-> FALSE, store |-> s1]
        ELSE [ret |-> should_conclude,
              store |-> IF should_conclude
                        THEN [s1 EXCEPT ![session_id].should_conclude = TRUE]
                        ELSE s1]

\* the value should_conclude_session returns and the store it leaves
should_conclude_session(ss, session_id, tc) ==
    LET s1 == get_session(ss, session_id, tc)
        session == s1[session_id]
        total_messages == Len(session.messages)
        engagement_messages == engagement_count(session)
        has_valuable_intel ==
            is_high_value_intelligence(session.extracted_intelligence)
        max_messages_reached == total_messages >= MaxMessages
        should_conclude == has_valuable_intel \/ max_messages_reached
    IN  IF session.should_conclude THEN [ret |-> TRUE, store |-> s1]
        ELSE IF ~session.agent_engaged THEN [ret |-> FALSE, store |-> s1]
        ELSE IF engagement_messages < MinEngagementMessages
        THEN [ret |-> FALSE, store |-> s1]
        ELSE [ret |-> should_conclude,
              store |-> IF should_conclude
                        THEN [s1 EXCEPT ![session_id].should_conclude = TRUE]
                        ELSE s1]

\* faulty variant: marking the report as sent reopens the session
mark_callback_sent_reopen(ss, session_id, tc, t) ==
    LET s1 == get_session(ss, session_id, tc)
    IN  [s1 EXCEPT ![session_id].callback_sent = TRUE,
                   ![session_id].callback_sent_at = <<t>>,
                   ![session_id].should_conclude = FALSE]

mark_callback_sent(ss, session_id, tc, t) ==
    LET s1 == get_session(ss, session_id, tc)
    IN  [s1 EXCEPT ![session_id].callback_sent = TRUE,
                   ![session_id].callback_sent_at = <<t>>]

(***************************************************************************)
(* The environment: inbound requests, classifier and generator outcomes,   *)
(* report-sink outcomes.                                                   *)
(***************************************************************************)
DefaultInput == [sender |-> "scammer", text |-> "hello", timestamp |-> 1]

RichInputs ==
    {[sender |-> "scammer", text |-> "pay a@ybl", timestamp |-> 2],
     [sender |-> "scammer", text |-> "call 9876543210", timestamp |-> 2],
     [sender |-> "scammer", text |-> "9876543210 www.x.in", timestamp |-> 2],
     [sender |-> "user", text |-> "send OTP", timestamp |-> 2]}

Inputs == {DefaultInput} \cup RichInputs

\* inbound requests whose texts carry overlapping intelligence
IntelInputs ==
    {DefaultInput,
     [sender |-> "scammer", text |-> "pay a@ybl", timestamp |-> 2],
     [sender |-> "scammer", text |-> "send OTP to a@ybl", timestamp |-> 3],
     [sender |-> "scammer", text |-> "9876543210@paytm", timestamp |-> 4],
     [sender |-> "scammer", text |-> "call 9876543210 otp", timestamp |-> 5]}

\* message texts handed to the extractor by a direct call
ExtractorTexts ==
    {"hello", "pay a@ybl", "send OTP to a@ybl", "call 9876543210",
     "9876543210 www.x.in", "www.x.in", "acct 123456789012",
     "+91 9876543210", "+91 98765 43210", "919876543210", "09876543210",
     "9876543210@paytm", "paytm.support@gmail", "a@gmail"}

\* extract_from_message of every text the model uses, computed once
ExtractionOf ==
    [text \in {inp.text : inp \in Inputs \cup IntelInputs} \cup ExtractorTexts
        |-> extract_from_message(text)]

\* intelligence_extractor.py:112-118: the loop over the messages from the
\* i-th on, aggregated being the five sets built so far
RECURSIVE aggregate_from(_, _, _)
aggregate_from(messages, i, aggregated) ==
    IF i > Len(messages) THEN aggregated
    ELSE LET extracted == ExtractionOf[messages[i].text]
         IN  aggregate_from(messages, i + 1,
                 [key \in IntelKeys |-> aggregated[key] \cup extracted[key]])

\* faulty variant: each message replaces what was aggregated so far
extract_from_conversation_last(messages) ==
    IF messages = <<>> THEN [key \in IntelKeys |-> {}]
    ELSE [key \in IntelKeys |-> ExtractionOf[messages[Len(messages)].text][key]]

\* IntelligenceExtractor.extract_from_conversation; each list(values) it
\* returns is kept as the set
extract_from_conversation(messages) ==
    aggregate_from(messages, 1, [key \in IntelKeys |-> {}])

\* what detect_scam returns: (is_scam, confidence); on any failure (False, 0.0).
\* numeric = FALSE is a confidence the model's JSON gave as a non-number.
ClassifierResults ==
    {[is_scam |-> FALSE, numeric |-> TRUE, confidence |-> 0],
     [is_scam |-> TRUE, numeric |-> TRUE, confidence |-> 65],
     [is_scam |-> TRUE, numeric |-> TRUE, confidence |-> 70],
     [is_scam |-> FALSE, numeric |-> TRUE, confidence |-> 85],
     [is_scam |-> TRUE, numeric |-> TRUE, confidence |-> 85],
     [is_scam |-> TRUE, numeric |-> FALSE, confidence |-> 0]}

\* _call_llm_for_response: the generated text, or the fixed filler on failure
GeneratorOutcomes == {"generated", "filler"}

\* the sink's answer to the POST
SinkOutcomes == {"200", "non200", "exception"}

NoResult == <<>>
NoReply == [status |-> "none", intent |-> "none", text |-> "none"]
IdleHandler ==
    [pc |-> "idle", sid |-> "", input |-> DefaultInput, cls |-> NoResult,
     reply |-> NoReply]

Reply(intent, text) == [status |-> "success", intent |-> intent, text |-> text]
\* HTTPException(status_code=500) of main.py:219-222
ErrorReply == [status |-> "error", intent |-> "none", text |-> "none"]

TasksOf(s) == {i \in DOMAIN tasks : tasks[i].sid = s}

\* no IntelligenceExtractor call from outside the handler
NoCall == [fn |-> "none", arg |-> <<>>, ret |-> <<>>]

Init ==
    /\ sessions = <<>>
    /\ now = 0
    /\ handlers = [h \in Slots |-> IdleHandler]
    /\ tasks = <<>>
    /\ extractor_call = NoCall

(***************************************************************************)
(* chat_endpoint (main.py:135-217), one action per stretch between awaits. *)
(***************************************************************************)
\* main.py:136-155 and 183-186: get_session, add_message, the phase branch
chat_start(h, s, inp) ==
    /\ handlers[h].pc = "idle"
    /\ \E tc \in (IF s \in DOMAIN sessions THEN {now} ELSE Readings(now)) :
       \E t \in Readings(tc) :
          LET s1 == get_session(sessions, s, tc)
              s2 == add_message(s1, s, inp.sender, inp.text, inp.timestamp, tc, t)
              session == s2[s]
              started == [pc |-> "idle", sid |-> s, input |-> inp,
                          cls |-> NoResult, reply |-> NoReply]
          IN  /\ now' = t
              /\ IF session.scam_detected /\ session.agent_engaged
                 THEN LET r == should_conclude_session(s2, s, t)
                      IN  /\ sessions' = r.store
                          /\ handlers' = [handlers EXCEPT ![h] =
                                [started EXCEPT !.pc =
                                    IF r.ret THEN "gen_final" ELSE "gen_ongoing"]]
                 ELSE IF ~session.scam_detected
                 THEN /\ sessions' = s2
                      /\ handlers' = [handlers EXCEPT ![h] =
                            [started EXCEPT !.pc = "classify"]]
                 ELSE /\ sessions' = s2
                      /\ handlers' = [handlers EXCEPT ![h] =
                            [started EXCEPT !.reply = Reply("fallback", "fixed")]]
    /\ UNCHANGED <<tasks, extractor_call>>

\* a turn arrives, within the bounds of the model
ChatStart(h, s, inp) ==
    /\ s \in DOMAIN sessions =>
          /\ Len(sessions[s].messages) < MaxTurns
          /\ inp # DefaultInput =>
                Cardinality({i \in DOMAIN sessions[s].messages :
                    sessions[s].messages[i].text # DefaultInput.text}) < MaxRich
          /\ sessions[s].should_conclude =>
                Cardinality(TasksOf(s)) <= MaxPostTurns
    /\ chat_start(h, s, inp)

\* faulty variant: confidence >= 0.7
clears_threshold_ge(res) == res.is_scam /\ res.confidence >= ConfidenceThreshold

\* main.py:192  is_scam and confidence > 0.7
clears_threshold(res) == res.is_scam /\ res.confidence > ConfidenceThreshold

\* main.py:186-195: detect_scam returns; the threshold test; mark_scam_detected
ClassifierReturns(h, res) ==
    /\ handlers[h].pc = "classify"
    /\ LET s == handlers[h].sid
       IN  IF res.is_scam /\ ~res.numeric
           THEN \* confidence > 0.7 raises TypeError: caught at main.py:219
                /\ handlers' = [handlers EXCEPT ![h].pc = "idle",
                                                ![h].cls = <<res>>,
                                                ![h].reply = ErrorReply]
                /\ UNCHANGED <<sessions, now>>
           ELSE IF clears_threshold(res)
           THEN \E t \in Readings(now) :
                  /\ sessions' = mark_scam_detected(sessions, s, res.confidence,
                                                    t, t)
                  /\ now' = t
                  /\ handlers' = [handlers EXCEPT ![h].pc = "engage",
                                                  ![h].cls = <<res>>]
           ELSE /\ handlers' = [handlers EXCEPT ![h].pc = "gen_neutral",
                                                ![h].cls = <<res>>]
                /\ UNCHANGED <<sessions, now>>
    /\ UNCHANGED <<tasks, extractor_call>>

\* main.py:195: engage_agent
EngageAgent(h) ==
    /\ handlers[h].pc = "engage"
    /\ \E t \in Readings(now) :
          /\ sessions' = engage_agent(sessions, handlers[h].sid, t, t)
          /\ now' = t
    /\ handlers' = [handlers EXCEPT ![h].pc = "gen_initial"]
    /\ UNCHANGED <<tasks, extractor_call>>

\* faulty variant: the generated reply is appended to the session log
InitialReturns_logs(h, out) ==
    /\ handlers[h].pc = "gen_initial"
    /\ sessions' = add_message(sessions, handlers[h].sid, "user", out, 0,
                               now, now)
    /\ handlers' = [handlers EXCEPT ![h].pc = "idle",
                                    ![h].reply = Reply("initial", out)]
    /\ UNCHANGED <<now, tasks, extractor_call>>

\* main.py:198-204
InitialReturns(h, out) ==
    /\ handlers[h].pc = "gen_initial"
    /\ handlers' = [handlers EXCEPT ![h].pc = "idle",
                                    ![h].reply = Reply("initial", out)]
    /\ UNCHANGED <<sessions, now, tasks, extractor_call>>

\* main.py:207-211
NeutralReturns(h, out) ==
    /\ handlers[h].pc = "gen_neutral"
    /\ handlers' = [handlers EXCEPT ![h].pc = "idle",
                                    ![h].reply = Reply("neutral", out)]
    /\ UNCHANGED <<sessions, now, tasks, extractor_call>>

\* faulty variant: the reply is returned without the extraction and merge
OngoingReturns_skip(h, out) ==
    /\ handlers[h].pc = "gen_ongoing"
    /\ handlers' = [handlers EXCEPT ![h].pc = "idle",
                                    ![h].reply = Reply("ongoing", out)]
    /\ UNCHANGED <<sessions, now, tasks, extractor_call>>

\* main.py:171-181: generate_response returns; extract; update_intelligence
OngoingReturns(h, out) ==
    /\ handlers[h].pc = "gen_ongoing"
    /\ LET intelligence == ExtractionOf[handlers[h].input.text]
       IN  sessions' \in update_intelligence(sessions, handlers[h].sid,
                                             intelligence, now)
    /\ handlers' = [handlers EXCEPT ![h].pc = "idle",
                                    ![h].reply = Reply("ongoing", out)]
    /\ UNCHANGED <<now, tasks, extractor_call>>

\* faulty variant: the handler awaits the delivery before it returns
FinalReturns_awaits(h, out) ==
    /\ handlers[h].pc = "gen_final"
    /\ IF TasksOf(handlers[h].sid) = {}
       THEN /\ tasks' = Append(tasks, [sid |-> handlers[h].sid, pc |-> "created",
                                       payload |-> <<>>, outcome |-> "none"])
            /\ UNCHANGED handlers
       ELSE /\ \E i \in TasksOf(handlers[h].sid) : tasks[i].pc = "done"
            /\ handlers' = [handlers EXCEPT ![h].pc = "idle",
                                            ![h].reply = Reply("final", out)]
            /\ UNCHANGED tasks
    /\ UNCHANGED <<sessions, now, extractor_call>>

\* main.py:157-168: generate_final_response returns; create_task; return
FinalReturns(h, out) ==
    /\ handlers[h].pc = "gen_final"
    /\ tasks' = Append(tasks, [sid |-> handlers[h].sid, pc |-> "created",
                               payload |-> <<>>, outcome |-> "none"])
    /\ handlers' = [handlers EXCEPT ![h].pc = "idle",
                                    ![h].reply = Reply("final", out)]
    /\ UNCHANGED <<sessions, now, extractor_call>>

(***************************************************************************)
(* send_final_callback (main.py:225-272), a detached task.  Tasks start in *)
(* the order they were created.                                            *)
(***************************************************************************)
\* main.py:232-263: build the payload from the live session and post it
CallbackStart(i) ==
    /\ i \in DOMAIN tasks
    /\ tasks[i].pc = "created"
    /\ \A j \in 1..(i - 1) : tasks[j].pc # "created"
    /\ LET session == sessions[tasks[i].sid]
           payload == [sessionId |-> tasks[i].sid,
                       scamDetected |-> TRUE,
                       totalMessagesExchanged |-> Len(session.messages),
                       extractedIntelligence |-> session.extracted_intelligence,
                       scamConfidence |-> session.scam_confidence]
       IN  tasks' = [tasks EXCEPT ![i].pc = "posted", ![i].payload = <<payload>>]
    /\ UNCHANGED <<sessions, now, handlers, extractor_call>>

\* main.py:265-272: the sink answers
CallbackReturns(i, out) ==
    /\ i \in DOMAIN tasks
    /\ tasks[i].pc = "posted"
    /\ tasks' = [tasks EXCEPT ![i].pc = "done", ![i].outcome = out]
    /\ IF out = "200"
       THEN \E t \in Readings(now) :
               /\ sessions' = mark_callback_sent(sessions, tasks[i].sid, t, t)
               /\ now' = t
       ELSE UNCHANGED <<sessions, now>>
    /\ UNCHANGED <<handlers, extractor_call>>

Next ==
    \/ \E h \in Slots, s \in SessionIds, inp \in Inputs : ChatStart(h, s, inp)
    \/ \E h \in Slots, res \in ClassifierResults : ClassifierReturns(h, res)
    \/ \E h \in Slots : EngageAgent(h)
    \/ \E h \in Slots, out \in GeneratorOutcomes : InitialReturns(h, out)
    \/ \E h \in Slots, out \in GeneratorOutcomes : NeutralReturns(h, out)
    \/ \E h \in Slots, out \in GeneratorOutcomes : OngoingReturns(h, out)
    \/ \E h \in Slots, out \in GeneratorOutcomes : FinalReturns(h, out)
    \/ \E i \in DOMAIN tasks : CallbackStart(i)
    \/ \E i \in DOMAIN tasks, out \in SinkOutcomes : CallbackReturns(i, out)

Spec == Init /\ [][Next]_vars

\* The generator call of the concluding turn returns (with the generated text
\* or, on any failure, with the filler), and the handler then runs to its
\* return statement.  Nothing is assumed about the detached callback tasks or
\* about the sink.
SpecFair ==
    Spec /\ WF_vars(\E h \in Slots, out \in GeneratorOutcomes :
                       FinalReturns(h, out))

(***************************************************************************)
(* The engagement phase under inputs that carry overlapping intelligence:  *)
(* from the state a detection turn on the first message leaves, turns that *)
(* the policy keeps below the engagement floor.                            *)
(***************************************************************************)
\* inbound turns after the detection turn
MaxIntelTurns == 3

DetectedResult == [is_scam |-> TRUE, numeric |-> TRUE, confidence |-> 85]

\* the state after  ChatStart, ClassifierReturns, EngageAgent, InitialReturns
InitIntel ==
    /\ sessions =
         ("s1" :> [NewSession("s1", 0) EXCEPT
                      !.messages = <<[sender |-> "scammer", text |-> "hello",
                                      timestamp |-> 1, datetime |-> 0]>>,
                      !.scam_detected = TRUE,
                      !.scam_confidence = 85,
                      !.scam_detected_at = <<0>>,
                      !.agent_engaged = TRUE,
                      !.agent_engaged_at = <<0>>])
    /\ now = 0
    /\ handlers = [h \in Slots |->
                      [pc |-> "idle", sid |-> "s1", input |-> DefaultInput,
                       cls |-> <<DetectedResult>>,
                       reply |-> Reply("initial", "generated")]]
    /\ tasks = <<>>
    /\ extractor_call = NoCall

ChatStartIntel(h, s, inp) ==
    /\ s \in DOMAIN sessions
    /\ Len(sessions[s].messages) <= MaxIntelTurns
    /\ chat_start(h, s, inp)

NextIntel ==
    \/ \E h \in Slots, s \in SessionIds, inp \in IntelInputs :
          ChatStartIntel(h, s, inp)
    \/ \E h \in Slots, out \in GeneratorOutcomes : OngoingReturns(h, out)

SpecIntel == InitIntel /\ [][NextIntel]_vars

(***************************************************************************)
(* Two sessions served by two handler instances that interleave at their   *)
(* suspension points, each handler on a session no other handler is        *)
(* serving.  Session s1 starts in the state that a detection turn on its   *)
(* first message and seven ongoing turns leave when the clock returned the *)
(* same reading throughout; session s2 is unseen.                          *)
(***************************************************************************)
\* inbound turns accepted per session in the two-session system
MaxPairTurns == 2

PairIds == {"s1", "s2"}
PairSlots == {1, 2}
PairInputs == {DefaultInput,
               [sender |-> "scammer", text |-> "pay a@ybl", timestamp |-> 2]}
PairResults == {DetectedResult,
                [is_scam |-> FALSE, numeric |-> TRUE, confidence |-> 0]}

\* messages s1 holds at the start
PairBase == MinEngagementMessages

InitPair ==
    /\ sessions =
         ("s1" :> [NewSession("s1", 0) EXCEPT
                      !.messages = [i \in 1..PairBase |->
                                       [sender |-> "scammer", text |-> "hello",
                                        timestamp |-> 1, datetime |-> 0]],
                      !.scam_detected = TRUE,
                      !.scam_confidence = 85,
                      !.scam_detected_at = <<0>>,
                      !.agent_engaged = TRUE,
                      !.agent_engaged_at = <<0>>])
    /\ now = 0
    /\ handlers = [h \in PairSlots |->
                      IF h = 1
                      THEN [pc |-> "idle", sid |-> "s1", input |-> DefaultInput,
                            cls |-> NoResult,
                            reply |-> Reply("ongoing", "generated")]
                      ELSE IdleHandler]
    /\ tasks = <<>>
    /\ extractor_call = NoCall

ChatStartPair(h, s, inp) ==
    /\ \A g \in PairSlots \ {h} :
          handlers[g].pc # "idle" => handlers[g].sid # s
    /\ s \in DOMAIN sessions =>
          Len(sessions[s].messages) <
             (IF s = "s1" THEN PairBase ELSE 0) + MaxPairTurns
    /\ chat_start(h, s, inp)

NextPair ==
    \/ \E h \in PairSlots, s \in PairIds, inp \in PairInputs :
          ChatStartPair(h, s, inp)
    \/ \E h \in PairSlots, res \in PairResults : ClassifierReturns(h, res)
    \/ \E h \in PairSlots : EngageAgent(h)
    \/ \E h \in PairSlots, out \in GeneratorOutcomes : InitialReturns(h, out)
    \/ \E h \in PairSlots, out \in GeneratorOutcomes : NeutralReturns(h, out)
    \/ \E h \in PairSlots, out \in GeneratorOutcomes : OngoingReturns(h, out)
    \/ \E h \in PairSlots, out \in GeneratorOutcomes : FinalReturns(h, out)
    \/ \E i \in DOMAIN tasks : CallbackStart(i)
    \/ \E i \in DOMAIN tasks, out \in SinkOutcomes : CallbackReturns(i, out)

SpecPair == InitPair /\ [][NextPair]_vars

(***************************************************************************)
(* The IntelligenceExtractor called directly, one call per behaviour: the  *)
(* method and its argument are drawn at the start, the action is the call. *)
(***************************************************************************)
\* longest conversation handed to extract_from_conversation
MaxConvLen == 3

\* texts of the messages of a conversation
ConvTexts == {"hello", "pay a@ybl", "send OTP to a@ybl", "call 9876543210",
              "9876543210 www.x.in"}

Conversations ==
    UNION {[1..n -> {[sender |-> "scammer", text |-> t] : t \in ConvTexts}] :
              n \in 0..MaxConvLen}

\* bundles handed to is_high_value_intelligence
Bundles ==
    [upi_ids : {<<>>, <<"a@ybl">>, <<"a@ybl", "b@paytm">>},
     phone_numbers : {<<>>, <<"9876543210">>, <<"9876543210", "9123456789">>},
     bank_accounts : {<<>>, <<"123456789012">>},
     phishing_links : {<<>>, <<"www.x.in">>, <<"www.x.in", "http://y.in">>},
     suspicious_keywords : {<<>>, <<"otp">>, <<"otp", "kyc">>}]

ExtractorCalls ==
    {[fn |-> "extract_from_message", arg |-> <<t>>, ret |-> <<>>] :
        t \in ExtractorTexts}
    \cup {[fn |-> "extract_from_conversation", arg |-> <<c>>, ret |-> <<>>] :
             c \in Conversations}
    \cup {[fn |-> "is_high_value_intelligence", arg |-> <<b>>, ret |-> <<>>] :
             b \in Bundles}

InitExtractor ==
    /\ sessions = <<>>
    /\ now = 0
    /\ handlers = [h \in Slots |-> IdleHandler]
    /\ tasks = <<>>
    /\ extractor_call \in ExtractorCalls

ExtractFromMessage ==
    /\ extractor_call.fn = "extract_from_message"
    /\ extractor_call.ret = <<>>
    /\ extractor_call' =
          [extractor_call EXCEPT !.ret = <<ExtractionOf[extractor_call.arg[1]]>>]
    /\ UNCHANGED <<sessions, now, handlers, tasks>>

ExtractFromConversation ==
    /\ extractor_call.fn = "extract_from_conversation"
    /\ extractor_call.ret = <<>>
    /\ extractor_call' =
          [extractor_call EXCEPT
              !.ret = <<extract_from_conversation(extractor_call.arg[1])>>]
    /\ UNCHANGED <<sessions, now, handlers, tasks>>

IsHighValue ==
    /\ extractor_call.fn = "is_high_value_intelligence"
    /\ extractor_call.ret = <<>>
    /\ extractor_call' =
          [extractor_call EXCEPT
              !.ret = <<is_high_value_intelligence(extractor_call.arg[1])>>]
    /\ UNCHANGED <<sessions, now, handlers, tasks>>

NextExtractor ==
    \/ ExtractFromMessage
    \/ ExtractFromConversation
    \/ IsHighValue

SpecExtractor == InitExtractor /\ [][NextExtractor]_vars

(***************************************************************************)
(* The report of a concluded session.  The start is the end of the         *)
(* synchronous part of the turn in which should_conclude_session first     *)
(* returned true: a detection turn on the first message, an ongoing turn   *)
(* that brought a payment handle, and turns up to the engagement floor,    *)
(* the clock having returned the same reading throughout.  Further turns   *)
(* on the session arrive while the closing reply is generated and while    *)
(* the report is built and sent.                                           *)
(***************************************************************************)
\* inbound turns accepted after the concluding turn
MaxReportTurns == 2

\* handler instances whose turns may overlap on one session
RaceSlots == {1, 2}

\* the session at the moment of conclusion
ConcludedSession ==
    [NewSession("s1", 0) EXCEPT
        !.messages = [i \in 1..MinEngagementMessages |->
                         [sender |-> "scammer",
                          text |-> IF i = 2 THEN "pay a@ybl" ELSE "hello",
                          timestamp |-> IF i = 2 THEN 2 ELSE 1,
                          datetime |-> 0]],
        !.scam_detected = TRUE,
        !.scam_confidence = 85,
        !.scam_detected_at = <<0>>,
        !.agent_engaged = TRUE,
        !.agent_engaged_at = <<0>>,
        !.extracted_intelligence =
            [EmptyIntelligence EXCEPT !.upi_ids = <<"a@ybl">>],
        !.should_conclude = TRUE]

InitReport ==
    /\ sessions = ("s1" :> ConcludedSession)
    /\ now = 0
    /\ handlers = [h \in RaceSlots |->
                      IF h = 1
                      THEN [pc |-> "gen_final", sid |-> "s1",
                            input |-> DefaultInput, cls |-> NoResult,
                            reply |-> NoReply]
                      ELSE IdleHandler]
    /\ tasks = <<>>
    /\ extractor_call = NoCall

ChatStartReport(h, s, inp) ==
    /\ Len(sessions[s].messages) < MinEngagementMessages + MaxReportTurns
    /\ chat_start(h, s, inp)

NextReport ==
    \/ \E h \in RaceSlots, s \in SessionIds, inp \in PairInputs :
          ChatStartReport(h, s, inp)
    \/ \E h \in RaceSlots, out \in GeneratorOutcomes : FinalReturns(h, out)
    \/ \E i \in DOMAIN tasks : CallbackStart(i)
    \/ \E i \in DOMAIN tasks, out \in SinkOutcomes : CallbackReturns(i, out)

SpecReport == InitReport /\ [][NextReport]_vars

(***************************************************************************)
(* Overlapping turns on one session: two handler instances serve the same  *)
(* session identifier and interleave at their awaits.  The store is either *)
(* empty, or holds the session that a detection turn on the first message, *)
(* an ongoing turn that brought a payment handle and four more ongoing     *)
(* turns leave when the clock returned the same reading throughout.        *)
(***************************************************************************)
\* inbound turns accepted after the start
MaxRaceTurns == 3

RaceInputs == {DefaultInput,
               [sender |-> "scammer", text |-> "call 9876543210",
                timestamp |-> 2]}
RaceResults == {DetectedResult,
                [is_scam |-> TRUE, numeric |-> TRUE, confidence |-> 95],
                [is_scam |-> FALSE, numeric |-> TRUE, confidence |-> 0]}

\* messages the engaged session holds at the start
RaceBase == MinEngagementMessages - 2

EngagedSession ==
    [ConcludedSession EXCEPT
        !.messages = SubSeq(ConcludedSession.messages, 1, RaceBase),
        !.should_conclude = FALSE]

InitRace ==
    /\ \/ /\ sessions = <<>>
          /\ handlers = [h \in RaceSlots |-> IdleHandler]
       \/ /\ sessions = ("s1" :> EngagedSession)
          /\ handlers = [h \in RaceSlots |->
                            IF h = 1
                            THEN [pc |-> "idle", sid |-> "s1",
                                  input |-> DefaultInput, cls |-> NoResult,
                                  reply |-> Reply("ongoing", "generated")]
                            ELSE IdleHandler]
    /\ now = 0
    /\ tasks = <<>>
    /\ extractor_call = NoCall

\* a turn arrives, at most MaxRaceTurns turns after either start
ChatStartRace(h, s, inp) ==
    /\ LET len == IF s \in DOMAIN sessions THEN Len(sessions[s].messages) ELSE 0
           base == IF len >= RaceBase THEN RaceBase ELSE 0
       IN  len < base + MaxRaceTurns
    /\ chat_start(h, s, inp)

NextRace ==
    \/ \E h \in RaceSlots, s \in SessionIds, inp \in RaceInputs :
          ChatStartRace(h, s, inp)
    \/ \E h \in RaceSlots, res \in RaceResults : ClassifierReturns(h, res)
    \/ \E h \in RaceSlots : EngageAgent(h)
    \/ \E h \in RaceSlots, out \in GeneratorOutcomes : InitialReturns(h, out)
    \/ \E h \in RaceSlots, out \in GeneratorOutcomes : NeutralReturns(h, out)
    \/ \E h \in RaceSlots, out \in GeneratorOutcomes : OngoingReturns(h, out)
    \/ \E h \in RaceSlots, out \in GeneratorOutcomes : FinalReturns(h, out)
    \/ \E i \in DOMAIN tasks : CallbackStart(i)
    \/ \E i \in DOMAIN tasks, out \in SinkOutcomes : CallbackReturns(i, out)

SpecRace == InitRace /\ [][NextRace]_vars

(***************************************************************************)
(* Properties.                                                             *)
(***************************************************************************)

\* C1: in every reachable state, also between mark_scam_detected and
\* engage_agent inside the detection turn, agent_engaged implies scam_detected.
C1_EngagedImpliesDetected ==
    \A s \in DOMAIN sessions :
        sessions[s].agent_engaged => sessions[s].scam_detected

\* the detection turn has just engaged the agent
C1_Witness ==
    \E h \in Slots :
        /\ handlers[h].pc = "gen_initial"
        /\ sessions[handlers[h].sid].agent_engaged
        /\ sessions[handlers[h].sid].scam_detected

\* C2: once should_conclude_session has returned true for a session (a handler
\* is on the final-reply path, or the flag is set), the flag is set, it stays
\* set in the next state, and an evaluation in this and in the next state
\* returns true.
C2_StickyConclusion ==
    [][\A s \in DOMAIN sessions :
          (\/ sessions[s].should_conclude
           \/ \E h \in Slots : handlers[h].sid = s /\ handlers[h].pc = "gen_final")
          => /\ sessions[s].should_conclude
             /\ should_conclude_session(sessions, s, now).ret
             /\ s \in DOMAIN sessions'
             /\ sessions'[s].should_conclude
             /\ should_conclude_session(sessions', s, now').ret]_vars

\* a turn that arrived after the conclusion evaluates the policy again
C2_Witness ==
    \E h \in Slots :
        /\ handlers[h].pc = "gen_final"
        /\ TasksOf(handlers[h].sid) # {}
        /\ sessions[handlers[h].sid].should_conclude

\* C3 (as claimed): send_final_callback is started at most once per session.
C3_CallbackStartedOnce ==
    \A s \in DOMAIN sessions :
        Cardinality({i \in TasksOf(s) : tasks[i].pc # "created"}) <= 1

\* C4 (as claimed): mark_callback_sent is never applied to a session whose
\* callback_sent is already true.
C4_CallbackSentSetOnce ==
    [][\A i \in DOMAIN tasks :
          (/\ tasks[i].pc = "posted"
           /\ tasks'[i].pc = "done"
           /\ tasks'[i].outcome = "200")
          => ~sessions[tasks[i].sid].callback_sent]_vars

\* C5: an engaged session with fewer than 8 messages received at or after the
\* engagement timestamp is not concluded, no handler is on its final-reply
\* path, and should_conclude_session returns false, whatever the bundle and
\* the total message count.
C5_EngagementFloor ==
    \A s \in DOMAIN sessions :
        LET x == sessions[s]
            post == {i \in DOMAIN x.messages :
                        x.messages[i].datetime >= x.agent_engaged_at[1]}
        IN  (x.agent_engaged /\ Cardinality(post) < 8)
            => /\ ~x.should_conclude
               /\ ~should_conclude_session(sessions, s, now).ret
               /\ \A h \in Slots :
                     ~(handlers[h].sid = s /\ handlers[h].pc = "gen_final")

\* the policy has just returned false below the floor for a high-value bundle
\* and 15 or more messages
C5_Witness ==
    \E h \in Slots :
        LET x == sessions[handlers[h].sid]
        IN  /\ handlers[h].pc = "gen_ongoing"
            /\ x.agent_engaged
            /\ Cardinality({i \in DOMAIN x.messages :
                   x.messages[i].datetime >= x.agent_engaged_at[1]}) < 8
            /\ Len(x.messages) >= 15
            /\ x.extracted_intelligence.upi_ids # <<>>

\* C6: for an engaged session with at least 8 messages at or after the
\* engagement timestamp and at least 15 messages in total,
\* should_conclude_session returns true, also for an empty bundle; a handler
\* that evaluated the policy in such a state is on the final-reply path.
C6_HardCeiling ==
    \A s \in DOMAIN sessions :
        LET x == sessions[s]
            post == {i \in DOMAIN x.messages :
                        x.messages[i].datetime >= x.agent_engaged_at[1]}
        IN  (x.agent_engaged /\ Cardinality(post) >= 8 /\ Len(x.messages) >= 15)
            => /\ should_conclude_session(sessions, s, now).ret
               /\ \A h \in Slots :
                     ~(handlers[h].sid = s /\ handlers[h].pc = "gen_ongoing")

\* the ceiling concludes a session whose bundle is empty
C6_Witness ==
    \E h \in Slots :
        LET x == sessions[handlers[h].sid]
        IN  /\ handlers[h].pc = "gen_final"
            /\ TasksOf(handlers[h].sid) = {}
            /\ Len(x.messages) = 15
            /\ x.extracted_intelligence = EmptyIntelligence

\* C7: for an engaged session with at least 8 messages at or after the
\* engagement timestamp and fewer than 15 in total, should_conclude_session
\* returns true exactly when the bundle has a payment handle, or a phone number
\* and a link, or a bank account; the handler that evaluated it is on the
\* final-reply path exactly in that case.
C7_ValueDrivenExit ==
    \A s \in DOMAIN sessions :
        LET x == sessions[s]
            b == x.extracted_intelligence
            post == {i \in DOMAIN x.messages :
                        x.messages[i].datetime >= x.agent_engaged_at[1]}
            high == \/ b.upi_ids # <<>>
                    \/ (b.phone_numbers # <<>> /\ b.phishing_links # <<>>)
                    \/ b.bank_accounts # <<>>
        IN  (x.agent_engaged /\ Cardinality(post) >= 8 /\ Len(x.messages) < 15)
            => /\ should_conclude_session(sessions, s, now).ret = high
               /\ \A h \in Slots :
                     handlers[h].sid = s =>
                        /\ handlers[h].pc = "gen_final" => high
                        /\ handlers[h].pc = "gen_ongoing" => ~high

\* one payment handle, 8 post-engagement messages, fewer than 15 in total
C7_Witness ==
    \E h \in Slots :
        LET x == sessions[handlers[h].sid]
        IN  /\ handlers[h].pc = "gen_final"
            /\ TasksOf(handlers[h].sid) = {}
            /\ Len(x.extracted_intelligence.upi_ids) = 1
            /\ Cardinality({i \in DOMAIN x.messages :
                   x.messages[i].datetime >= x.agent_engaged_at[1]}) = 8
            /\ Len(x.messages) < 15

\* C8: in a turn on an undetected session whose classifier result does not
\* clear the threshold, the first stretch only appends the inbound message,
\* the classifier's return and the neutral reply change no session, and the
\* turn ends undetected with the neutral reply.
C8_BelowThresholdFrame ==
    [][\A h \in Slots :
          LET s == handlers'[h].sid
              inp == handlers'[h].input
          IN  /\ (handlers[h].pc = "idle" /\ handlers'[h].pc = "classify")
                 => /\ sessions'[s].messages[Len(sessions'[s].messages)] =
                          [sender |-> inp.sender, text |-> inp.text,
                           timestamp |-> inp.timestamp, datetime |-> now']
                    /\ IF s \in DOMAIN sessions
                       THEN sessions'[s] =
                               [sessions[s] EXCEPT !.messages =
                                   Append(@, sessions'[s].messages[Len(@) + 1])]
                       ELSE /\ Len(sessions'[s].messages) = 1
                            /\ ~sessions'[s].scam_detected
                            /\ sessions'[s].scam_confidence = 0
                            /\ ~sessions'[s].agent_engaged
                            /\ sessions'[s].extracted_intelligence =
                                  EmptyIntelligence
                            /\ ~sessions'[s].should_conclude
                            /\ ~sessions'[s].callback_sent
              /\ (/\ handlers[h].pc = "classify"
                  /\ handlers'[h].cls # <<>>
                  /\ \/ ~handlers'[h].cls[1].is_scam
                     \/ /\ handlers'[h].cls[1].numeric
                        /\ handlers'[h].cls[1].confidence <= 70)
                 => /\ sessions' = sessions
                    /\ handlers'[h].pc = "gen_neutral"
              /\ (handlers[h].pc = "gen_neutral" /\ handlers'[h].pc = "idle")
                 => /\ sessions' = sessions
                    /\ ~sessions'[s].scam_detected
                    /\ handlers'[h].reply.status = "success"
                    /\ handlers'[h].reply.intent = "neutral"]_vars

\* a turn with confidence exactly 0.7 on a session that already had messages
\* has ended with the neutral reply
C8_Witness ==
    \E h \in Slots :
        /\ handlers[h].pc = "idle"
        /\ handlers[h].reply.intent = "neutral"
        /\ handlers[h].cls =
              <<[is_scam |-> TRUE, numeric |-> TRUE, confidence |-> 70]>>
        /\ Len(sessions[handlers[h].sid].messages) >= 2
        /\ ~sessions[handlers[h].sid].scam_detected

\* C9: a turn whose classifier result is is_scam with confidence > 0.7 ends
\* with scam_detected, agent_engaged, scam_confidence equal to the returned
\* confidence, the session not concluded, and the initial engagement reply.
C9_DetectionTurn ==
    \A h \in Slots :
        (/\ handlers[h].pc = "idle"
         /\ handlers[h].cls # <<>>
         /\ handlers[h].cls[1].is_scam
         /\ handlers[h].cls[1].numeric
         /\ handlers[h].cls[1].confidence > 70)
        => LET x == sessions[handlers[h].sid]
           IN  /\ x.scam_detected
               /\ x.agent_engaged
               /\ x.scam_confidence = handlers[h].cls[1].confidence
               /\ ~x.should_conclude
               /\ handlers[h].reply.status = "success"
               /\ handlers[h].reply.intent = "initial"

\* a detection turn with confidence 0.85 has ended
C9_Witness ==
    \E h \in Slots :
        /\ handlers[h].pc = "idle"
        /\ handlers[h].cls =
              <<[is_scam |-> TRUE, numeric |-> TRUE, confidence |-> 85]>>
        /\ handlers[h].reply.intent = "initial"
        /\ sessions[handlers[h].sid].scam_confidence = 85

\* C10: update_intelligence is a per-field set union.  In every step no field
\* of a bundle loses an element and no field holds a duplicate; the merge of
\* an ongoing turn leaves each field equal, as a set, to the field before
\* united with the extraction of the inbound text; merging the same
\* extraction again changes no field.
C10_MergeIsUnion ==
    [][\A s \in DOMAIN sessions : \A key \in IntelKeys :
          LET B == sessions[s].extracted_intelligence
              B1 == sessions'[s].extracted_intelligence
          IN  /\ Range(B[key]) \subseteq Range(B1[key])
              /\ Len(B1[key]) = Cardinality(Range(B1[key]))
              /\ \A h \in Slots :
                    (/\ handlers[h].sid = s
                     /\ handlers[h].pc = "gen_ongoing"
                     /\ handlers'[h].pc = "idle")
                    => LET N == ExtractionOf[handlers[h].input.text]
                       IN  /\ Range(B1[key]) = Range(B[key]) \cup N[key]
                           /\ \A again \in
                                 update_intelligence(sessions', s, N, now') :
                                 Range(again[s].extracted_intelligence[key]) =
                                    Range(B1[key])]_vars

\* a merge whose extraction overlaps the bundle it is merged into: the handle
\* a@ybl arrives a second time, with a keyword the bundle did not hold
C10_Witness ==
    \E h \in Slots :
        LET x == sessions[handlers[h].sid]
        IN  /\ handlers[h].pc = "idle"
            /\ handlers[h].reply.intent = "ongoing"
            /\ handlers[h].input.text = "send OTP to a@ybl"
            /\ \E i \in DOMAIN x.messages : x.messages[i].text = "pay a@ybl"
            /\ x.extracted_intelligence.upi_ids = <<"a@ybl">>
            /\ x.extracted_intelligence.suspicious_keywords = <<"otp">>

\* C11: the message log is append-only.  In every step every session stays in
\* the store and its previous log is a prefix of its new log, which is at most
\* one message longer; a step that lengthens the log is the first stretch of a
\* turn on that session, the new last message is the inbound message with the
\* receipt reading, and apart from the conclusion flag that the policy
\* evaluation of the same stretch may set, the session changes in messages
\* only.  add_message applied to the current store appends exactly that one
\* message and changes no other field.
C11_AppendOnlyLog ==
    [][\A s \in DOMAIN sessions :
          /\ s \in DOMAIN sessions'
          /\ LET old == sessions[s].messages
                 new == sessions'[s].messages
             IN  /\ Len(old) <= Len(new)
                 /\ Len(new) <= Len(old) + 1
                 /\ SubSeq(new, 1, Len(old)) = old
                 /\ Len(new) = Len(old) + 1 =>
                       /\ \E h \in Slots :
                             /\ handlers[h].pc = "idle"
                             /\ handlers'[h].sid = s
                             /\ new[Len(new)] =
                                   [sender |-> handlers'[h].input.sender,
                                    text |-> handlers'[h].input.text,
                                    timestamp |-> handlers'[h].input.timestamp,
                                    datetime |-> now']
                       /\ [sessions'[s] EXCEPT !.should_conclude =
                                                  sessions[s].should_conclude] =
                             [sessions[s] EXCEPT !.messages =
                                                    Append(@, new[Len(new)])]
          /\ \A inp \in Inputs : \A t \in Readings(now) :
                add_message(sessions, s, inp.sender, inp.text, inp.timestamp,
                            now, t) =
                   [sessions EXCEPT ![s].messages =
                       Append(@, [sender |-> inp.sender, text |-> inp.text,
                                  timestamp |-> inp.timestamp,
                                  datetime |-> t])]]_vars

\* a message has just been appended to the log of an engaged session that
\* holds earlier messages, a confidence and a non-empty bundle
C11_Witness ==
    \E h \in Slots :
        LET x == sessions[handlers[h].sid]
        IN  /\ handlers[h].pc = "gen_ongoing"
            /\ Len(x.messages) >= 3
            /\ x.messages[Len(x.messages)].text = handlers[h].input.text
            /\ x.scam_confidence = 85
            /\ x.extracted_intelligence.upi_ids # <<>>

\* C12: an unknown session identifier is never an error.  The first stretch
\* of the first turn on an identifier leaves a session that holds the inbound
\* message and otherwise the initial fields (flags false, confidence 0, five
\* empty lists).  In every reachable state, each store operation applied to an
\* identifier the store does not hold yields a store that holds it with the
\* initial fields changed only by the operation's own effect, and leaves the
\* other sessions as they were; get_session on an identifier the store holds
\* returns the store, and so that session, unchanged.
C12_UnknownSessionCreated ==
    /\ \A h \in Slots :
          handlers[h].pc # "idle" =>
             /\ handlers[h].sid \in DOMAIN sessions
             /\ LET x == sessions[handlers[h].sid]
                IN  (handlers[h].pc = "classify" /\ Len(x.messages) = 1) =>
                       /\ ~x.scam_detected
                       /\ x.scam_confidence = 0
                       /\ ~x.agent_engaged
                       /\ \A key \in IntelKeys :
                             x.extracted_intelligence[key] = <<>>
                       /\ ~x.callback_sent
                       /\ ~x.should_conclude
    /\ \A s \in DOMAIN sessions : \A t \in Readings(now) :
          /\ get_session(sessions, s, t) = sessions
          /\ get_session(sessions, s, t)[s] = sessions[s]
    /\ \A u \in {"s0", "s1"} \ DOMAIN sessions : \A t \in Readings(now) :
          LET created == get_session(sessions, u, t)
              x == created[u]
              inp == DefaultInput
              N == ExtractionOf["pay a@ybl"]
              aft(store) == /\ DOMAIN store = DOMAIN sessions \cup {u}
                            /\ \A s \in DOMAIN sessions : store[s] = sessions[s]
          IN  /\ aft(created)
              /\ x.messages = <<>>
              /\ ~x.scam_detected
              /\ x.scam_confidence = 0
              /\ ~x.agent_engaged
              /\ \A key \in IntelKeys : x.extracted_intelligence[key] = <<>>
              /\ ~x.callback_sent
              /\ ~x.should_conclude
              /\ LET y == add_message(sessions, u, inp.sender, inp.text,
                                      inp.timestamp, t, t)
                 IN  /\ aft(y)
                     /\ Len(y[u].messages) = 1
                     /\ [y[u] EXCEPT !.messages = <<>>] = x
              /\ LET y == mark_scam_detected(sessions, u, 85, t, t)
                 IN  /\ aft(y)
                     /\ y[u].scam_detected
                     /\ [y[u] EXCEPT !.scam_detected = FALSE,
                                     !.scam_confidence = 0,
                                     !.scam_detected_at = <<>>] = x
              /\ LET y == engage_agent(sessions, u, t, t)
                 IN  /\ aft(y)
                     /\ y[u].agent_engaged
                     /\ [y[u] EXCEPT !.agent_engaged = FALSE,
                                     !.agent_engaged_at = <<>>] = x
              /\ \A y \in update_intelligence(sessions, u, N, t) :
                     /\ aft(y)
                     /\ [y[u] EXCEPT !.extracted_intelligence =
                                        EmptyIntelligence] = x
              /\ LET r == should_conclude_session(sessions, u, t)
                 IN  /\ ~r.ret
                     /\ aft(r.store)
                     /\ r.store[u] = x
              /\ LET y == mark_callback_sent(sessions, u, t, t)
                 IN  /\ aft(y)
                     /\ y[u].callback_sent
                     /\ [y[u] EXCEPT !.callback_sent = FALSE,
                                     !.callback_sent_at = <<>>] = x

\* the first turn on an identifier has just created its session, and the
\* store does not hold the identifier s0
C12_Witness ==
    \E h \in Slots :
        /\ handlers[h].pc = "classify"
        /\ handlers[h].sid \in DOMAIN sessions
        /\ Len(sessions[handlers[h].sid].messages) = 1
        /\ "s0" \notin DOMAIN sessions

\* C13: requests for different sessions are independent.  In every step of
\* the two-session system, a session that the acting handler or callback task
\* does not serve is left as it was (and is not created); and the new state of
\* the session it serves is the one the same operation, with the same clock
\* readings and the same classifier, generator and sink outcomes, yields on a
\* store that holds that session alone, so that the state a sequence of turns
\* on one session leaves does not depend on the turns on the other.
C13_SessionsIndependent ==
    [][\A s \in PairIds :
          LET hs == {h \in PairSlots : handlers'[h] # handlers[h]}
              ts == {i \in DOMAIN tasks' :
                        i \notin DOMAIN tasks \/ tasks'[i] # tasks[i]}
              mine == \/ \E h \in hs : handlers'[h].sid = s
                      \/ \E i \in ts : tasks'[i].sid = s
              solo == [u \in {s} \cap DOMAIN sessions |-> sessions[u]]
          IN  /\ ~mine =>
                    /\ (s \in DOMAIN sessions') = (s \in DOMAIN sessions)
                    /\ s \in DOMAIN sessions => sessions'[s] = sessions[s]
              /\ \A h \in hs :
                    handlers'[h].sid = s =>
                       LET inp == handlers'[h].input
                           pc == handlers[h].pc
                       IN  /\ s \in DOMAIN sessions'
                           /\ pc = "idle" =>
                                 LET s2 == add_message(solo, s, inp.sender,
                                              inp.text, inp.timestamp,
                                              sessions'[s].created_at, now')
                                     r == should_conclude_session(s2, s, now')
                                 IN  IF /\ s2[s].scam_detected
                                        /\ s2[s].agent_engaged
                                     THEN /\ sessions'[s] = r.store[s]
                                          /\ handlers'[h].pc =
                                                IF r.ret THEN "gen_final"
                                                ELSE "gen_ongoing"
                                     ELSE sessions'[s] = s2[s]
                           /\ (pc = "classify" /\ handlers'[h].pc = "engage") =>
                                 sessions'[s] =
                                    mark_scam_detected(solo, s,
                                        handlers'[h].cls[1].confidence,
                                        now', now')[s]
                           /\ (pc = "classify" /\ handlers'[h].pc # "engage") =>
                                 sessions'[s] = sessions[s]
                           /\ pc = "engage" =>
                                 sessions'[s] =
                                    engage_agent(solo, s, now', now')[s]
                           /\ pc = "gen_ongoing" =>
                                 sessions'[s] \in
                                    {y[s] : y \in update_intelligence(solo, s,
                                                     ExtractionOf[inp.text], now)}
                           /\ pc \in {"gen_initial", "gen_neutral", "gen_final"}
                                 => sessions'[s] = sessions[s]
              /\ \A i \in ts :
                    (tasks'[i].sid = s /\ i \in DOMAIN tasks) =>
                       /\ tasks'[i].pc = "posted" =>
                             /\ sessions'[s] = sessions[s]
                             /\ tasks'[i].payload[1].totalMessagesExchanged =
                                   Len(solo[s].messages)
                             /\ tasks'[i].payload[1].extractedIntelligence =
                                   solo[s].extracted_intelligence
                       /\ (tasks'[i].pc = "done" /\ tasks'[i].outcome = "200") =>
                             sessions'[s] =
                                mark_callback_sent(solo, s, now', now')[s]
                       /\ (tasks'[i].pc = "done" /\ tasks'[i].outcome # "200") =>
                             sessions'[s] = sessions[s]]_vars

\* while a handler is at the generator suspension point on the concluded
\* session s1, a handler on s2 is at a suspension point of its own and s2 has
\* been detected
C13_Witness ==
    \E h \in PairSlots, g \in PairSlots :
        /\ handlers[h].pc = "gen_final"
        /\ handlers[h].sid = "s1"
        /\ handlers[g].pc \in {"engage", "gen_initial", "gen_ongoing"}
        /\ handlers[g].sid = "s2"
        /\ "s2" \in DOMAIN sessions
        /\ sessions["s2"].scam_detected
        /\ sessions["s1"].should_conclude

\* C14 (as claimed): once the sink has failed (non-200 or exception) for a
\* session whose callback_sent is false, the session stays concluded with
\* callback_sent false, no further send_final_callback is created for it and
\* none posts a report for it.
C14_NoRetryAfterFailure ==
    [][\A s \in DOMAIN sessions :
          (/\ \E i \in TasksOf(s) : /\ tasks[i].pc = "done"
                                     /\ tasks[i].outcome # "200"
           /\ ~sessions[s].callback_sent)
          => /\ sessions'[s].should_conclude
             /\ ~sessions'[s].callback_sent
             /\ \A j \in DOMAIN tasks' :
                   tasks'[j].sid = s =>
                      /\ j \in DOMAIN tasks
                      /\ tasks'[j].pc = "posted" => tasks[j].pc = "posted"]_vars

\* C15 (as claimed): no failure of the classifier or of the generator reaches
\* the caller.  No turn ends with an error; a classifier answer that is the
\* fallback (false, 0.0) or is malformed (a confidence that is not a number)
\* leaves every session as it was and leads to the neutral reply; a turn that
\* ends with the generator's filler ends with status success, and its last
\* stretch changes the sessions as it does when the generator succeeds: not at
\* all, or by the merge of the ongoing turn.
C15_FailuresNotSurfaced ==
    [][\A h \in Slots :
          /\ handlers'[h].reply.status # "error"
          /\ (/\ handlers[h].pc = "classify"
              /\ handlers'[h].cls # <<>>
              /\ \/ ~handlers'[h].cls[1].numeric
                 \/ (~handlers'[h].cls[1].is_scam
                        /\ handlers'[h].cls[1].confidence = 0))
             => /\ handlers'[h].pc = "gen_neutral"
                /\ sessions' = sessions
          /\ (/\ handlers[h].pc \in {"gen_initial", "gen_neutral",
                                      "gen_ongoing", "gen_final"}
              /\ handlers'[h].pc = "idle"
              /\ handlers'[h].reply.text = "filler")
             => /\ handlers'[h].reply.status = "success"
                /\ IF handlers[h].pc = "gen_ongoing"
                   THEN sessions' \in
                           update_intelligence(sessions, handlers[h].sid,
                               ExtractionOf[handlers[h].input.text], now)
                   ELSE sessions' = sessions]_vars

\* C16: the report handoff does not block the reply of the concluding turn.
\* A handler that is generating the closing reply returns it, whatever the
\* callback tasks and the sink do (they may never act); the step that emits
\* the closing reply contacts no sink: it adds one task that has not started,
\* changes no other task and no session, so callback_sent is as it was.
C16_ReplyNotBlocked ==
    /\ \A h \in Slots :
          (handlers[h].pc = "gen_final")
             ~> (handlers[h].pc = "idle" /\ handlers[h].reply.intent = "final")
    /\ [][\A h \in Slots :
             (handlers[h].pc = "gen_final" /\ handlers'[h].pc = "idle")
             => /\ handlers'[h].reply = Reply("final", handlers'[h].reply.text)
                /\ Len(tasks') = Len(tasks) + 1
                /\ tasks'[Len(tasks')].pc = "created"
                /\ tasks'[Len(tasks')].sid = handlers[h].sid
                /\ \A i \in DOMAIN tasks : tasks'[i] = tasks[i]
                /\ sessions' = sessions]_vars

\* the closing reply of the concluding turn has been emitted while the report
\* has not been posted and callback_sent is false
C16_Witness ==
    \E h \in Slots :
        /\ handlers[h].pc = "idle"
        /\ handlers[h].reply.intent = "final"
        /\ Cardinality(TasksOf(handlers[h].sid)) = 1
        /\ \A i \in TasksOf(handlers[h].sid) : tasks[i].pc = "created"
        /\ ~sessions[handlers[h].sid].callback_sent

\* C17: the aggregated intelligence of a conversation is the per-field union
\* of the per-message extractions.  What extract_from_conversation returned
\* for a conversation is, field by field, the union of what
\* extract_from_message gives for its messages; it is what the call gives for
\* every permutation of the conversation and for the conversation with any of
\* its messages repeated at the end; and what extract_from_message returned
\* for a text is what aggregating that text once or twice gives.
C17_AggregateIsUnion ==
    /\ (extractor_call.fn = "extract_from_conversation"
           /\ extractor_call.ret # <<>>) =>
          LET c == extractor_call.arg[1]
              R == extractor_call.ret[1]
          IN  /\ \A key \in IntelKeys :
                    R[key] = UNION {extract_from_message(c[i].text)[key] :
                                      i \in DOMAIN c}
              /\ \A p \in Permutations(DOMAIN c) :
                    extract_from_conversation([i \in DOMAIN c |-> c[p[i]]]) = R
              /\ \A i \in DOMAIN c :
                    extract_from_conversation(Append(c, c[i])) = R
    /\ (extractor_call.fn = "extract_from_message"
           /\ extractor_call.ret # <<>>) =>
          LET m == [sender |-> "scammer", text |-> extractor_call.arg[1]]
              R == extractor_call.ret[1]
          IN  /\ extract_from_conversation(<<m>>) = R
              /\ extract_from_conversation(<<m, m>>) = R

\* the call has returned for a conversation of three messages of which two
\* carry the same payment handle and the third a phone number
C17_Witness ==
    /\ extractor_call.fn = "extract_from_conversation"
    /\ extractor_call.ret # <<>>
    /\ extractor_call.arg[1] =
          <<[sender |-> "scammer", text |-> "pay a@ybl"],
            [sender |-> "scammer", text |-> "call 9876543210"],
            [sender |-> "scammer", text |-> "send OTP to a@ybl"]>>
    /\ extractor_call.ret[1].upi_ids = {"a@ybl"}
    /\ extractor_call.ret[1].phone_numbers = {"9876543210"}
    /\ extractor_call.ret[1].suspicious_keywords = {"otp"}

\* C18: is_high_value_intelligence returns true exactly for a bundle with at
\* least one payment handle, or at least one phone number and at least one
\* link, or at least one bank account; it returns false for a bundle that
\* holds only keywords, only phone numbers or only links.
C18_HighValueIff ==
    (extractor_call.fn = "is_high_value_intelligence"
       /\ extractor_call.ret # <<>>) =>
       LET b == extractor_call.arg[1]
           ret == extractor_call.ret[1]
           only(keys) == \A key \in IntelKeys \ keys : b[key] = <<>>
       IN  /\ ret = (\/ Len(b.upi_ids) >= 1
                     \/ (Len(b.phone_numbers) >= 1 /\ Len(b.phishing_links) >= 1)
                     \/ Len(b.bank_accounts) >= 1)
           /\ only({"suspicious_keywords"}) => ~ret
           /\ only({"phone_numbers", "suspicious_keywords"}) => ~ret
           /\ only({"phishing_links", "suspicious_keywords"}) => ~ret

\* the call has returned false for a bundle with two phone numbers and two
\* keywords and nothing else
C18_Witness ==
    /\ extractor_call.fn = "is_high_value_intelligence"
    /\ extractor_call.ret = <<FALSE>>
    /\ Len(extractor_call.arg[1].phone_numbers) = 2
    /\ Len(extractor_call.arg[1].suspicious_keywords) = 2
    /\ extractor_call.arg[1].phishing_links = <<>>
    /\ extractor_call.arg[1].upi_ids = <<>>
    /\ extractor_call.arg[1].bank_accounts = <<>>

\* C19 (as claimed): extract_from_message of "+91 98765 43210" yields the
\* phone candidate "9876543210".
C19_SpacedPhoneExtracted ==
    (/\ extractor_call.fn = "extract_from_message"
     /\ extractor_call.arg = <<"+91 98765 43210">>
     /\ extractor_call.ret # <<>>)
    => "9876543210" \in extractor_call.ret[1].phone_numbers

\* C20: a turn on an engaging session for which the conclusion policy returns
\* false.  Its first stretch leaves the bundle and the flags as they were and
\* goes on to generate the ongoing reply; its last stretch emits the ongoing
\* reply with status success, leaves the session detected, engaged and not
\* concluded, changes nothing of it but the bundle, and leaves each field of
\* the bundle equal, as a set, to the field before united with
\* extract_from_message of the turn's inbound text.
C20_OngoingTurn ==
    [][\A h \in Slots :
          LET s == handlers'[h].sid
              inp == handlers'[h].input
          IN  /\ (/\ handlers[h].pc = "idle"
                  /\ handlers'[h] # handlers[h]
                  /\ s \in DOMAIN sessions
                  /\ sessions[s].scam_detected
                  /\ sessions[s].agent_engaged
                  /\ ~should_conclude_session(sessions', s, now').ret)
                 => /\ handlers'[h].pc = "gen_ongoing"
                    /\ sessions'[s] =
                          [sessions[s] EXCEPT !.messages =
                              Append(@, [sender |-> inp.sender,
                                         text |-> inp.text,
                                         timestamp |-> inp.timestamp,
                                         datetime |-> now'])]
              /\ (handlers[h].pc = "gen_ongoing" /\ handlers'[h].pc = "idle")
                 => /\ handlers'[h].reply.status = "success"
                    /\ handlers'[h].reply.intent = "ongoing"
                    /\ sessions'[s].scam_detected
                    /\ sessions'[s].agent_engaged
                    /\ ~sessions'[s].should_conclude
                    /\ sessions'[s] =
                          [sessions[s] EXCEPT !.extracted_intelligence =
                              sessions'[s].extracted_intelligence]
                    /\ \A key \in IntelKeys :
                          Range(sessions'[s].extracted_intelligence[key]) =
                             Range(sessions[s].extracted_intelligence[key])
                                \cup ExtractionOf[inp.text][key]]_vars

\* an ongoing turn past the engagement floor has ended: its inbound text
\* carried a phone number, which is now in the bundle, and the session is
\* still engaging
C20_Witness ==
    \E h \in Slots :
        LET x == sessions[handlers[h].sid]
        IN  /\ handlers[h].pc = "idle"
            /\ handlers[h].reply.intent = "ongoing"
            /\ handlers[h].input.text = "call 9876543210"
            /\ x.extracted_intelligence.phone_numbers = <<"9876543210">>
            /\ x.messages[Len(x.messages)].text = "call 9876543210"
            /\ engagement_count(x) >= MinEngagementMessages
            /\ ~x.should_conclude

\* C21: a session's phase only moves forward.  In every reachable state
\* callback_sent implies should_conclude, should_conclude implies
\* agent_engaged and agent_engaged implies scam_detected; in every step every
\* session stays in the store and none of scam_detected, agent_engaged,
\* should_conclude, callback_sent changes from true to false.
C21_PhaseForward ==
    /\ [](\A s \in DOMAIN sessions :
             /\ sessions[s].callback_sent => sessions[s].should_conclude
             /\ sessions[s].should_conclude => sessions[s].agent_engaged
             /\ sessions[s].agent_engaged => sessions[s].scam_detected)
    /\ [][\A s \in DOMAIN sessions :
             /\ s \in DOMAIN sessions'
             /\ sessions[s].scam_detected => sessions'[s].scam_detected
             /\ sessions[s].agent_engaged => sessions'[s].agent_engaged
             /\ sessions[s].should_conclude => sessions'[s].should_conclude
             /\ sessions[s].callback_sent => sessions'[s].callback_sent]_vars

\* a turn has started on a session whose report was delivered: the session is
\* closed and the policy has been evaluated on it once more
C21_Witness ==
    \E h \in Slots :
        /\ handlers[h].pc = "gen_final"
        /\ sessions[handlers[h].sid].callback_sent
        /\ sessions[handlers[h].sid].should_conclude
        /\ sessions[handlers[h].sid].agent_engaged
        /\ sessions[handlers[h].sid].scam_detected

\* C22 (as claimed): every report built for a session carries the message
\* count and the intelligence bundle the session had at the end of the
\* synchronous part of the turn in which should_conclude_session first
\* returned true, whatever arrives for the session afterwards.
C22_ReportPinned ==
    \A i \in DOMAIN tasks :
        (tasks[i].sid = "s1" /\ tasks[i].payload # <<>>) =>
           /\ tasks[i].payload[1].totalMessagesExchanged =
                 Len(ConcludedSession.messages)
           /\ tasks[i].payload[1].extractedIntelligence =
                 ConcludedSession.extracted_intelligence

C24_CountStartsAtEngagement ==
    /\ [](\A h \in Slots :
             handlers[h].pc = "gen_initial" =>
                engagement_count(sessions[handlers[h].sid]) = 0)
    /\ [][\A s \in DOMAIN sessions :
             sessions[s].agent_engaged =>
                engagement_count(sessions'[s]) =
                   engagement_count(sessions[s])
                      + Len(sessions'[s].messages) - Len(sessions[s].messages)]_vars

\* C25 (as claimed): should_conclude_session is a pure function of the
\* session.  Evaluating it on a session of the store leaves the store as it
\* is; the stretch of a turn that evaluates it leaves the store as add_message
\* left it, the conclusion flag included, and holds the sessions it held.
C25_PolicyIsPure ==
    /\ [](\A s \in DOMAIN sessions :
             should_conclude_session(sessions, s, now).store = sessions)
    /\ [][\A h \in Slots :
             (/\ handlers[h].pc = "idle"
              /\ handlers'[h].pc \in {"gen_ongoing", "gen_final"})
             => LET s == handlers'[h].sid
                    inp == handlers'[h].input
                IN  sessions' =
                       add_message(sessions, s, inp.sender, inp.text,
                                   inp.timestamp, now', now')]_vars

\* C26 (as claimed): no digit run is reported both as a phone candidate and
\* as a bank-account candidate.  The digits of every match of the phone
\* pattern that yields a phone candidate (the match without a leading +, so
\* with its prefix 91 or 0) are absent from bank_accounts, and
\* "123456789012", which matches no phone pattern, is in bank_accounts.
C26_PhoneRunNotAccount ==
    (extractor_call.fn = "extract_from_message" /\ extractor_call.ret # <<>>) =>
       LET t == extractor_call.arg[1]
           R == extractor_call.ret[1]
       IN  /\ \A m \in Range(phone_findall(t, 1)) :
                 Len(clean_phone(m)) = PhoneLen =>
                    (IF HasPrefix(m, 1, "+") THEN SubSeq(m, 2, Len(m)) ELSE m)
                       \notin R.bank_accounts
           /\ t = "acct 123456789012" =>
                 /\ R.phone_numbers = {}
                 /\ "123456789012" \in R.bank_accounts

\* C27 (as claimed): a token local-part@domain-part is reported as a payment
\* handle exactly when its domain-part matches the allow-list of provider
\* suffixes: "9876543210@paytm" is reported, "paytm.support@gmail" is not.
C27_HandleIffDomainListed ==
    (extractor_call.fn = "extract_from_message" /\ extractor_call.ret # <<>>) =>
       LET t == extractor_call.arg[1]
           R == extractor_call.ret[1]
       IN  /\ \A u \in Range(upi_findall(t, 1)) :
                 LET at == CHOOSE i \in 1..Len(u) : Ch(u, i) = "@"
                     domain == SubSeq(u, at + 1, Len(u))
                 IN  (u \in R.upi_ids) =
                        (\E bank \in UpiProviders :
                            Contains(Lower(domain), bank))
           /\ t = "9876543210@paytm" => "9876543210@paytm" \in R.upi_ids
           /\ t = "paytm.support@gmail" => R.upi_ids = {}

C29_OneAppendPerTurn ==
    [][/\ \A s \in DOMAIN sessions' :
             LET old == IF s \in DOMAIN sessions THEN sessions[s].messages
                        ELSE <<>>
                 new == sessions'[s].messages
             IN  \/ new = old
                 \/ /\ Len(new) = Len(old) + 1
                    /\ SubSeq(new, 1, Len(old)) = old
                    /\ \E h \in DOMAIN handlers :
                          /\ handlers[h].pc = "idle"
                          /\ handlers'[h].sid = s
                          /\ \A g \in DOMAIN handlers \ {h} :
                                handlers'[g] = handlers[g]
                          /\ new[Len(new)] =
                                [sender |-> handlers'[h].input.sender,
                                 text |-> handlers'[h].input.text,
                                 timestamp |-> handlers'[h].input.timestamp,
                                 datetime |-> now']
       /\ \A h \in DOMAIN handlers :
             /\ (handlers[h].pc = "idle" /\ handlers'[h].pc # "idle")
                => LET s == handlers'[h].sid
                   IN  Len(sessions'[s].messages) =
                          (IF s \in DOMAIN sessions
                           THEN Len(sessions[s].messages) ELSE 0) + 1
             /\ (handlers[h].pc # "idle" /\ handlers'[h] # handlers[h])
                => \A s \in DOMAIN sessions :
                      sessions'[s].messages = sessions[s].messages
       /\ tasks' # tasks =>
             \A s \in DOMAIN sessions :
                sessions'[s].messages = sessions[s].messages]_vars

\* two turns overlap on a session that has concluded: one handler is still
\* generating an ongoing reply, the other the closing reply, and the last two
\* messages of the log are their inbound messages in the order of their starts
C29_Witness ==
    \E h \in RaceSlots, g \in RaceSlots :
        LET x == sessions[handlers[h].sid]
            n == Len(x.messages)
        IN  /\ handlers[h].pc = "gen_ongoing"
            /\ handlers[g].pc = "gen_final"
            /\ handlers[g].sid = handlers[h].sid
            /\ x.should_conclude
            /\ handlers[h].input.text # handlers[g].input.text
            /\ x.messages[n - 1].text = handlers[h].input.text
            /\ x.messages[n].text = handlers[g].input.text

\* C30: an engaged session that keeps receiving turns concludes.  With turns
\* handled one at a time, a turn on an engaged session whose message is number
\* n concludes the session and goes on to generate the closing reply whenever
\* n >= max(15, d + 8), d being the number of messages received before the
\* engagement timestamp (for a strictly increasing clock, the number of the
\* message that triggered the engagement); the step that concludes a session
\* is the first stretch of a turn on it; and a turn that generates the closing
\* reply emits it and creates the send_final_callback task in one stretch.
C30_EngagedSessionConcludes ==
    /\ [][/\ \A h \in Slots :
                LET s == handlers'[h].sid
                IN  (/\ handlers[h].pc = "idle"
                     /\ handlers'[h].pc # "idle"
                     /\ s \in DOMAIN sessions
                     /\ sessions[s].agent_engaged)
                    => LET x == sessions'[s]
                           n == Len(x.messages)
                           d == n - engagement_count(x)
                           last == IF d + 8 > 15 THEN d + 8 ELSE 15
                       IN  /\ n = Len(sessions[s].messages) + 1
                           /\ n >= last =>
                                 /\ x.should_conclude
                                 /\ handlers'[h].pc = "gen_final"
          /\ \A s \in DOMAIN sessions :
                (~sessions[s].should_conclude /\ sessions'[s].should_conclude)
                => \E h \in Slots : /\ handlers[h].pc = "idle"
                                    /\ handlers'[h].sid = s
                                    /\ handlers'[h].pc = "gen_final"
          /\ \A h \in Slots :
                (handlers[h].pc = "gen_final" /\ handlers'[h] # handlers[h])
                => /\ handlers'[h].pc = "idle"
                   /\ handlers'[h].reply.intent = "final"
                   /\ tasks' = Append(tasks, tasks'[Len(tasks')])
                   /\ tasks'[Len(tasks')].sid = handlers[h].sid
                   /\ tasks'[Len(tasks')].pc = "created"]_vars
    /\ \A h \in Slots :
          (handlers[h].pc = "gen_final")
             ~> (/\ handlers[h].pc = "idle"
                 /\ handlers[h].reply.intent = "final"
                 /\ TasksOf(handlers[h].sid) # {})

\* the eighth message triggered the engagement, with a later reading than its
\* receipt; the bundle stayed empty; the turn of message 16 = max(15, 8 + 8)
\* has concluded the session, emitted the closing reply and created the task
C30_Witness ==
    \E h \in Slots :
        LET x == sessions[handlers[h].sid]
        IN  /\ handlers[h].pc = "idle"
            /\ handlers[h].reply.intent = "final"
            /\ Len(x.messages) = 16
            /\ x.messages[8].datetime < x.agent_engaged_at[1]
            /\ engagement_count(x) = 8
            /\ x.extracted_intelligence = EmptyIntelligence
            /\ x.should_conclude
            /\ Cardinality(TasksOf(handlers[h].sid)) = 1

\* C31 (as claimed): with turns handled one at a time the fallback reply branch
\* of chat_endpoint is never taken.  Whenever the handler is idle, that is in
\* every state in which a turn starts or has returned, no session has
\* scam_detected without agent_engaged; and a turn that has returned has ended
\* with status success in exactly one of the replies neutral, initial, ongoing
\* or final, never in the fallback reply and never in an error.
C31_FallbackUnreachable ==
    /\ (\A h \in Slots : handlers[h].pc = "idle")
          => \A s \in DOMAIN sessions :
                sessions[s].scam_detected => sessions[s].agent_engaged
    /\ \A h \in Slots :
          (handlers[h].pc = "idle" /\ handlers[h].reply # NoReply)
             => /\ handlers[h].reply.status = "success"
                /\ handlers[h].reply.intent
                      \in {"neutral", "initial", "ongoing", "final"}

====
